---------------------------- MODULE Spec2Model ----------------------------
(***************************************************************************)
(* State machine of bin/staellning.py: the main thread (argument parsing,  *)
(* plot setup, observer start, the wait loop on the global `completed`)    *)
(* and the watchdog observer thread that runs Fast5Handler.on_created for  *)
(* every *.fast5 file created in the watched directory.                    *)
(*                                                                         *)
(* Python semantics kept by the model:                                     *)
(*  - argparse stores --intensity and --stop as strings (no type=);        *)
(*    --intensity goes through int(), --stop is compared as it is;         *)
(*  - the program runs on CPython 2 (poretools, bokeh.io.hplot), where a   *)
(*    number compares smaller than any string;                             *)
(*  - an exception that leaves on_created is not caught anywhere in the    *)
(*    file: it ends the observer thread that dispatched the event, and the *)
(*    main thread keeps polling;                                           *)
(*  - the global `counter` and `completed` are assigned at line 282 only,  *)
(*    i.e. only when scaffolding_reads returns.                            *)
(***************************************************************************)
EXTENDS Integers, Sequences, FiniteSets

\* ------------------------------------------------------------------ bounds
MaxEvents == 4        \* fast5 files created in the watched directory
MaxIntensity == 2     \* largest --intensity value explored (0 included)
MaxStop == 1          \* largest --stop value explored
MaxScaffolds == 2     \* largest scaffold count a scaffolder returns
MaxTime == 3          \* ticks of timeit.default_timer() explored

\* ------------------------------------------------- constants of the program
N50Seed == 90152
ReadsSeed == 0
ScaffoldSeed == 44

VARIABLES
    args,           \* parse_arguments(): scaffolder, run_mode, intensity, stop
    main,           \* position of the main thread
    watcher,        \* position of the observer thread (observer1)
    stopRequested,  \* observer1.stop() has been called
    queue,          \* created *.fast5 events not yet dispatched
    arrived,        \* number of events the observer has seen
    list_of_files,  \* global list_of_files
    counter,        \* global counter (run history)
    completed,      \* global completed
    tic,            \* global tic
    now,            \* timeit.default_timer()
    inFlight,       \* run_scaffold invocations entered and not yet left
    handled,        \* history: events whose handler has been entered
    skipped,        \* history: handled events without a 2D read
    usable,         \* history: handled events with a 2D read, in order
    passes,         \* history: one record per triggered scaffold pass
    returned,       \* history: scaffold counts the scaffolders returned
    failures,       \* history: one record per handler that raised
    flagSet         \* history: how `completed` was last assigned True

vars == <<args, main, watcher, stopRequested, queue, arrived, list_of_files,
          counter, completed, tic, now, inFlight, handled, skipped, usable,
          passes, returned, failures, flagSet>>

hist == <<handled, skipped, usable, passes, returned, failures, flagSet>>

\* ------------------------------------------------------------ Python values
PyInt(n) == [type |-> "int", val |-> n]
PyStr(n) == [type |-> "str", val |-> n]     \* the decimal string of n

\* int(s) for a decimal string s (lines 35 and 51)
int(s) == s.val

\* CPython 2 `a <= b` with a an int (line 54: scaffolds <= args.stop).
\* Two ints compare by value; an int is smaller than any str.
PyLeNumeric(a, b) == a.val <= b.val
PyLe(a, b) == IF b.type = "int" THEN a.val <= b.val ELSE TRUE

\* stop(): returns True (the assignment inside is to a local)
stop == TRUE

\* ------------------------------------------------------------ configuration
Scaffolders == {"links", "sspace"}
RunModes == {"time", "reads"}

parse_arguments ==
    [scaffolder : Scaffolders,
     run_mode   : RunModes,
     intensity  : {PyStr(k) : k \in 0..MaxIntensity},
     stop       : {PyStr(q) : q \in 1..MaxStop}]

ScaffoldCounts == 1..MaxScaffolds

\* counter = [0, N50_list, reads_list, scaffold_list, None]  (lines 299-304)
InitCounter ==
    [n50 |-> <<N50Seed>>, reads |-> <<ReadsSeed>>,
     scaffolds |-> <<ScaffoldSeed>>, contigs |-> "None"]

Init ==
    /\ args \in parse_arguments
    /\ main = "setup"
    /\ watcher = "unstarted"
    /\ stopRequested = FALSE
    /\ queue = <<>>
    /\ arrived = 0
    /\ list_of_files = <<>>
    /\ counter = InitCounter
    /\ completed = FALSE
    /\ tic = 0
    /\ now = 0
    /\ inFlight = 0
    /\ handled = 0
    /\ skipped = 0
    /\ usable = <<>>
    /\ passes = <<>>
    /\ returned = <<>>
    /\ failures = <<>>
    /\ flagSet = [set |-> FALSE, count |-> 0, event |-> 0]


\* ------------------------------------------------------------- main thread
\* lines 290-304: the timer of time mode; the seeded counter is in Init
Setup ==
    /\ main = "setup"
    /\ main' = "plots"
    /\ tic' = IF args.run_mode = "time" THEN now ELSE tic
    /\ UNCHANGED <<args, watcher, stopRequested, queue, arrived, list_of_files,
                   counter, completed, now, inFlight, hist>>

\* line 307, bokeh_plots(counter).  As written the call raises: line 109
\* passes contig_src to contig_circle(), which takes no parameter.  The
\* returning outcome is kept so that the control loop behind the call is
\* explored; it stands for a plotting collaborator that works.
bokeh_plots_returns ==
    /\ main = "plots"
    /\ main' = "observer"
    /\ UNCHANGED <<args, watcher, stopRequested, queue, arrived, list_of_files,
                   counter, completed, tic, now, inFlight, hist>>

\* line 307 raising: nothing catches it, the process ends before line 310
bokeh_plots_raises ==
    /\ main = "plots"
    /\ main' = "crashed"
    /\ UNCHANGED <<args, watcher, stopRequested, queue, arrived, list_of_files,
                   counter, completed, tic, now, inFlight, hist>>

\* lines 310-312: observer1.start()
ObserverStart ==
    /\ main = "observer"
    /\ main' = "waiting"
    /\ watcher' = "idle"
    /\ UNCHANGED <<args, stopRequested, queue, arrived, list_of_files,
                   counter, completed, tic, now, inFlight, hist>>

\* lines 315-317: the wait loop reads `completed` once a second
WaitLoopExitInverted ==
    /\ main = "waiting"
    /\ ~completed
    /\ main' = "stopping"
    /\ UNCHANGED <<args, watcher, stopRequested, queue, arrived, list_of_files,
                   counter, completed, tic, now, inFlight, hist>>

WaitLoopExit ==
    /\ main = "waiting"
    /\ completed
    /\ main' = "stopping"
    /\ UNCHANGED <<args, watcher, stopRequested, queue, arrived, list_of_files,
                   counter, completed, tic, now, inFlight, hist>>

\* line 318: observer1.stop()
ObserverStop ==
    /\ main = "stopping"
    /\ main' = "joining"
    /\ stopRequested' = TRUE
    /\ UNCHANGED <<args, watcher, queue, arrived, list_of_files,
                   counter, completed, tic, now, inFlight, hist>>

\* line 319: observer1.join() returns when the observer thread has ended
ObserverJoin ==
    /\ main = "joining"
    /\ watcher \in {"stopped", "dead"}
    /\ main' = "exited"
    /\ UNCHANGED <<args, watcher, stopRequested, queue, arrived, list_of_files,
                   counter, completed, tic, now, inFlight, hist>>

\* ------------------------------------------------------------- environment
\* A *.fast5 file is created in the watched directory while the observer
\* is scheduled (line 253 pattern, line 311 path).
FileCreated ==
    /\ main \in {"waiting", "stopping"}
    /\ arrived < MaxEvents
    /\ \E u \in BOOLEAN :
          queue' = Append(queue, [id |-> arrived + 1, has_2D |-> u])
    /\ arrived' = arrived + 1
    /\ UNCHANGED <<args, main, watcher, stopRequested, list_of_files,
                   counter, completed, tic, now, inFlight, hist>>

\* timeit.default_timer() advances; it is read in time mode only
Tick ==
    /\ args.run_mode = "time"
    /\ now < MaxTime
    /\ now' = now + 1
    /\ UNCHANGED <<args, main, watcher, stopRequested, queue, arrived,
                   list_of_files, counter, completed, tic, inFlight, hist>>

\* ---------------------------------------------------------- trigger policy
\* line 35: toc - tic > int(args.intensity)
ShouldRunTimeAtLeast(toc, t0, t) == toc - t0 >= t
ShouldRunTime(toc, t0, t) == toc - t0 > t

\* line 51: len(list_of_files) % int(args.intensity) == 0   (k # 0)
ShouldRunReadsAlways(n, k) == TRUE
ShouldRunReadsPreIncrement(n, k) == (n - 1) % k = 0
ShouldRunReads(n, k) == n % k = 0

\* lines 268-271: the fasta file name derived from event.src_path
filename(e) == e.id

\* the observer thread takes the next event only between two handlers
WatcherFreeReentrant == watcher \in {"idle", "scaffolding"}
WatcherFree == watcher = "idle"

\* lines 281-283: the globals are assigned only when scaffolding_reads returns
AssignAlways(outcome, old, new) == new
Assign(outcome, old, new) == IF outcome = "returns" THEN new ELSE old

Snapshot == [counter |-> counter, completed |-> completed]

PassRecordNewestOnly(e, files) ==
    [event |-> e.id, files |-> <<filename(e)>>, at |-> now, ref |-> tic,
     shut |-> completed, busy |-> inFlight, before |-> Snapshot]

PassRecord(e, files) ==
    [event |-> e.id, files |-> files, at |-> now, ref |-> tic,
     shut |-> completed, busy |-> inFlight, before |-> Snapshot]

Failure(what, before, after) ==
    [what |-> what, before |-> before, after |-> after]

Dispatchable ==
    /\ WatcherFree
    /\ ~stopRequested
    /\ queue # <<>>

\* ---------------------------------------------------------- observer thread
\* lines 255-266: the converted file holds no 2D read
write_to_fasta_no_2D_appends ==
    /\ Dispatchable
    /\ ~Head(queue).has_2D
    /\ queue' = Tail(queue)
    /\ handled' = Head(queue).id
    /\ skipped' = skipped + 1
    /\ list_of_files' = Append(list_of_files, filename(Head(queue)))
    /\ UNCHANGED <<usable,
                   args, main, watcher, stopRequested, arrived,
                   counter, completed, tic, now, inFlight, passes, returned,
                   failures, flagSet>>

write_to_fasta_no_2D ==
    /\ Dispatchable
    /\ ~Head(queue).has_2D
    /\ queue' = Tail(queue)
    /\ handled' = Head(queue).id
    /\ skipped' = skipped + 1
    /\ UNCHANGED <<usable,
                   args, main, watcher, stopRequested, arrived, list_of_files,
                   counter, completed, tic, now, inFlight, passes, returned,
                   failures, flagSet>>

\* lines 266-279 and 24-40, the timer has not run out
scaffolding_time_skip ==
    /\ Dispatchable
    /\ Head(queue).has_2D
    /\ args.run_mode = "time"
    /\ ~ShouldRunTime(now, tic, int(args.intensity))
    /\ queue' = Tail(queue)
    /\ handled' = Head(queue).id
    /\ usable' = Append(usable, Head(queue).id)
    /\ list_of_files' = Append(list_of_files, filename(Head(queue)))
    /\ UNCHANGED <<args, main, watcher, stopRequested, arrived,
                   counter, completed, tic, now, inFlight, skipped, passes,
                   returned, failures, flagSet>>

\* the trigger of time mode with the append of line 275 left out
scaffolding_time_run_no_append ==
    /\ Dispatchable
    /\ Head(queue).has_2D
    /\ args.run_mode = "time"
    /\ ShouldRunTime(now, tic, int(args.intensity))
    /\ queue' = Tail(queue)
    /\ handled' = Head(queue).id
    /\ usable' = Append(usable, Head(queue).id)
    /\ passes' = Append(passes, PassRecord(Head(queue), list_of_files))
    /\ failures' = Append(failures, Failure("TypeError", Snapshot, Snapshot))
    /\ watcher' = "dead"
    /\ UNCHANGED <<args, main, stopRequested, arrived, list_of_files, counter,
                   completed, tic, now, inFlight, skipped, returned, flagSet>>

\* lines 266-279 and 24-36, the timer has run out: line 36 calls
\* run_scaffold(args, list_of_files) with two of its three parameters, a
\* TypeError before the body is entered; lines 37-40 are not reached.
scaffolding_time_run ==
    /\ Dispatchable
    /\ Head(queue).has_2D
    /\ args.run_mode = "time"
    /\ ShouldRunTime(now, tic, int(args.intensity))
    /\ queue' = Tail(queue)
    /\ handled' = Head(queue).id
    /\ usable' = Append(usable, Head(queue).id)
    /\ list_of_files' = Append(list_of_files, filename(Head(queue)))
    /\ passes' = Append(passes, PassRecord(Head(queue), list_of_files'))
    /\ failures' = Append(failures, Failure("TypeError", Snapshot, Snapshot))
    /\ watcher' = "dead"
    /\ UNCHANGED <<args, main, stopRequested, arrived, counter, completed,
                   tic, now, inFlight, skipped, returned, flagSet>>

\* lines 266-283 and 51: int(args.intensity) is 0, the modulo raises
scaffolding_reads_zero ==
    /\ Dispatchable
    /\ Head(queue).has_2D
    /\ args.run_mode = "reads"
    /\ int(args.intensity) = 0
    /\ queue' = Tail(queue)
    /\ handled' = Head(queue).id
    /\ usable' = Append(usable, Head(queue).id)
    /\ list_of_files' = Append(list_of_files, filename(Head(queue)))
    /\ failures' = Append(failures,
                          Failure("ZeroDivisionError", Snapshot, Snapshot))
    /\ watcher' = "dead"
    /\ UNCHANGED <<args, main, stopRequested, arrived, counter, completed,
                   tic, now, inFlight, skipped, passes, returned, flagSet>>

\* lines 266-283 and 51, 57-58: the count is no multiple of the interval
scaffolding_reads_skip ==
    /\ Dispatchable
    /\ Head(queue).has_2D
    /\ args.run_mode = "reads"
    /\ int(args.intensity) # 0
    /\ list_of_files' = Append(list_of_files, filename(Head(queue)))
    /\ ~ShouldRunReads(Len(list_of_files'), int(args.intensity))
    /\ queue' = Tail(queue)
    /\ handled' = Head(queue).id
    /\ usable' = Append(usable, Head(queue).id)
    /\ counter' = Assign("returns", counter, counter)
    /\ completed' = Assign("returns", completed, completed)
    /\ UNCHANGED <<args, main, watcher, stopRequested, arrived,
                   tic, now, inFlight, skipped, passes, returned, failures,
                   flagSet>>

\* lines 266-283 and 51-52: run_scaffold is entered
scaffolding_reads_run ==
    /\ Dispatchable
    /\ Head(queue).has_2D
    /\ args.run_mode = "reads"
    /\ int(args.intensity) # 0
    /\ list_of_files' = Append(list_of_files, filename(Head(queue)))
    /\ ShouldRunReads(Len(list_of_files'), int(args.intensity))
    /\ queue' = Tail(queue)
    /\ handled' = Head(queue).id
    /\ usable' = Append(usable, Head(queue).id)
    /\ passes' = Append(passes, PassRecord(Head(queue), list_of_files'))
    /\ inFlight' = inFlight + 1
    /\ watcher' = "scaffolding"
    /\ UNCHANGED <<args, main, stopRequested, arrived, counter, completed,
                   tic, now, skipped, returned, failures, flagSet>>

\* observer thread: BaseThread.should_keep_running() is false after stop()
watcher_stops ==
    /\ watcher = "idle"
    /\ stopRequested
    /\ watcher' = "stopped"
    /\ UNCHANGED <<args, main, stopRequested, queue, arrived, list_of_files,
                   counter, completed, tic, now, inFlight, hist>>

\* ------------------------------------------------------------ scaffold pass
\* run_sspace(short_reads, list_of_files, output, counter, genome_size) is
\* not part of bin/staellning.py.  Its result is modelled from the design:
\* one entry appended to each history, the contig sizes replaced.
N50Values == {N50Seed}

run_sspace(cnt, files, scaffolds, n50) ==
    [n50 |-> Append(cnt.n50, n50),
     reads |-> Append(cnt.reads, Len(files)),
     scaffolds |-> Append(cnt.scaffolds, scaffolds),
     contigs |-> Len(cnt.n50)]

InPass == watcher = "scaffolding" /\ inFlight > 0

ThePass == passes[Len(passes)]

Leave(state) ==
    /\ inFlight' = inFlight - 1
    /\ watcher' = IF state = "idle" /\ inFlight > 1 THEN "scaffolding" ELSE state

\* line 71: run_links raises
run_links_raises ==
    /\ InPass
    /\ args.scaffolder = "links"
    /\ Leave("dead")
    /\ failures' = Append(failures,
                          Failure("ExternalToolFailure", ThePass.before, Snapshot))
    /\ UNCHANGED <<usable,
                   args, main, stopRequested, queue, arrived, list_of_files,
                   counter, completed, tic, now, handled, skipped, passes,
                   returned, flagSet>>

\* lines 71 and 78: run_links returns the scaffold count, then line 78
\* reads `completed`, a local that only the sspace branch assigns:
\* UnboundLocalError.
run_links_returns ==
    /\ InPass
    /\ args.scaffolder = "links"
    /\ \E s \in ScaffoldCounts :
          returned' = Append(returned, [count |-> s, event |-> ThePass.event,
                                        flag |-> FALSE, left |-> "raises"])
    /\ Leave("dead")
    /\ counter' = Assign("raises", counter, counter)
    /\ completed' = Assign("raises", completed, stop)
    /\ failures' = Append(failures,
                          Failure("UnboundLocalError", ThePass.before,
                                  [counter |-> counter', completed |-> completed']))
    /\ UNCHANGED <<usable,
                   args, main, stopRequested, queue, arrived, list_of_files,
                   tic, now, handled, skipped, passes, flagSet>>

\* line 73: run_sspace raises
run_sspace_raises ==
    /\ InPass
    /\ args.scaffolder = "sspace"
    /\ Leave("dead")
    /\ failures' = Append(failures,
                          Failure("ExternalToolFailure", ThePass.before, Snapshot))
    /\ UNCHANGED <<usable,
                   args, main, stopRequested, queue, arrived, list_of_files,
                   counter, completed, tic, now, handled, skipped, passes,
                   returned, flagSet>>

\* lines 73-74: run_sspace returns, update(counter) raises.  As written it
\* does: line 195 reads `source`, a local of bokeh_plots.
update_raises ==
    /\ InPass
    /\ args.scaffolder = "sspace"
    /\ \E s \in ScaffoldCounts, n50 \in N50Values, c \in BOOLEAN :
          /\ returned' = Append(returned, [count |-> s, event |-> ThePass.event,
                                           flag |-> c, left |-> "raises"])
          /\ counter' = Assign("raises", counter,
                               run_sspace(counter, list_of_files, s, n50))
          /\ completed' = Assign("raises", completed, c)
    /\ Leave("dead")
    /\ failures' = Append(failures,
                          Failure("PlotFailure", ThePass.before,
                                  [counter |-> counter', completed |-> completed']))
    /\ UNCHANGED <<usable,
                   args, main, stopRequested, queue, arrived, list_of_files,
                   tic, now, handled, skipped, passes, flagSet>>

\* lines 73-78, 53-56 and 282: run_sspace and update return (update stands
\* for a plotting collaborator that works), run_scaffold returns the
\* scaffold count, the counter and run_sspace's `completed`; the termination
\* check follows and the globals are assigned.
run_scaffold_returns ==
    /\ InPass
    /\ args.scaffolder = "sspace"
    /\ \E s \in ScaffoldCounts, n50 \in N50Values, c \in BOOLEAN :
          /\ returned' = Append(returned, [count |-> s, event |-> ThePass.event,
                                           flag |-> c, left |-> "returns"])
          /\ counter' = Assign("returns", counter,
                               run_sspace(counter, list_of_files, s, n50))
          /\ completed' = Assign("returns", completed,
                                 IF PyLe(PyInt(s), args.stop) THEN stop ELSE c)
          /\ flagSet' = IF completed' /\ ~completed
                        THEN [set |-> TRUE, count |-> s, event |-> ThePass.event]
                        ELSE flagSet
    /\ Leave("idle")
    /\ UNCHANGED <<usable,
                   args, main, stopRequested, queue, arrived, list_of_files,
                   tic, now, handled, skipped, passes, failures>>

Next ==
    \/ Setup
    \/ bokeh_plots_returns
    \/ bokeh_plots_raises
    \/ ObserverStart
    \/ WaitLoopExit
    \/ ObserverStop
    \/ ObserverJoin
    \/ FileCreated
    \/ Tick
    \/ write_to_fasta_no_2D
    \/ scaffolding_time_skip
    \/ scaffolding_time_run
    \/ scaffolding_reads_zero
    \/ scaffolding_reads_skip
    \/ scaffolding_reads_run
    \/ watcher_stops
    \/ run_links_raises
    \/ run_links_returns
    \/ run_sspace_raises
    \/ update_raises
    \/ run_scaffold_returns

Spec == Init /\ [][Next]_vars

\* the call into the scaffolder that is in flight comes back
PassEnds ==
    \/ run_links_raises
    \/ run_links_returns
    \/ run_sspace_raises
    \/ update_raises
    \/ run_scaffold_returns

\* Both threads keep being scheduled: the main thread wakes from
\* time.sleep(1) and goes on through lines 315-319; the observer thread
\* comes back from the scaffolder call it is in and leaves its loop once
\* stop() has been called.
FairSpec ==
    /\ Spec
    /\ WF_vars(WaitLoopExit)
    /\ WF_vars(ObserverStop)
    /\ WF_vars(ObserverJoin)
    /\ WF_vars(watcher_stops)
    /\ WF_vars(PassEnds)

\* ------------------------------------------------------------------ claims
PassEvents == {passes[i].event : i \in 1..Len(passes)}

\* C1: in count mode with interval k >= 1, when every handled event held a
\* usable read, run_scaffold has been invoked on exactly the handled events
\* numbered k, 2k, 3k, ... (the appended file counted) and on no other.
C1_CountTrigger ==
    (args.run_mode = "reads" /\ int(args.intensity) >= 1 /\ skipped = 0)
        => PassEvents = {n \in 1..handled : n % int(args.intensity) = 0}

\* C1 witness: interval 2, four usable events handled, passes on 2 and 4
C1_Witness ==
    /\ args.run_mode = "reads"
    /\ int(args.intensity) = 2
    /\ skipped = 0
    /\ handled = 4
    /\ PassEvents = {2, 4}

\* C2: in both trigger modes, once the handler is over for a pass whose
\* scaffolder returned a count <= the stop threshold, `completed` is true.
C2_StopSetsFlag ==
    \A i \in 1..Len(returned) :
        returned[i].count <= int(args.stop) => completed

\* C3: `completed` goes from false to true only at the termination check
\* of a pass whose returned scaffold count is <= the stop threshold.
C3_FlagOnlyAtOrBelowStop ==
    flagSet.set => flagSet.count <= int(args.stop)

\* C4: once `completed` has been true it is true in every later state.
C4_OneWay == [][completed => completed']_vars

\* C4 witness: after the flag was set a later pass returned a count above
\* the threshold together with run_sspace's completed = False
C4_Witness ==
    /\ completed
    /\ \E i \in 1..Len(returned) :
          /\ returned[i].event > flagSet.event
          /\ returned[i].left = "returns"
          /\ returned[i].count > int(args.stop)
          /\ ~returned[i].flag

\* C5: once `completed` is true no further scaffold pass is invoked.
C5_NoPassAfterShutdown ==
    \A i \in 1..Len(passes) : ~passes[i].shut

PassFailures ==
    {"TypeError", "ExternalToolFailure", "UnboundLocalError", "PlotFailure"}

\* C7: after a pass has failed in count mode the observer thread still
\* handles the events that follow.
C7_FailedPassNonFatal ==
    (args.run_mode = "reads" /\
     \E i \in 1..Len(failures) : failures[i].what \in PassFailures)
        => watcher # "dead"

\* C8: run_scaffold is never entered while an earlier invocation is in
\* flight, and passes start in the arrival order of their events.
C8_MutualExclusion ==
    /\ inFlight <= 1
    /\ \A i \in 1..Len(passes) : passes[i].busy = 0
    /\ \A i, j \in 1..Len(passes) :
          i < j => passes[i].event < passes[j].event

\* C8 witness: a second pass is in flight while the main thread has left
\* its wait loop
C8_Witness ==
    /\ Len(passes) >= 2
    /\ inFlight = 1
    /\ main = "stopping"
    /\ queue # <<>>

\* C9: a count-mode interval of 0 never gets as far as a started observer
\* or a trigger evaluation.
C9_ZeroRejected ==
    (args.run_mode = "reads" /\ int(args.intensity) = 0)
        => /\ watcher = "unstarted"
           /\ \A i \in 1..Len(failures) :
                 failures[i].what # "ZeroDivisionError"

\* C10: in time mode a pass is triggered only when the time since the
\* last reset of tic (run start for the first pass) exceeds the interval,
\* so two triggers are at least the interval apart.
C10_TimeTrigger ==
    args.run_mode = "time" =>
        /\ \A i \in 1..Len(passes) :
              passes[i].at - passes[i].ref > int(args.intensity)
        /\ \A i, j \in 1..Len(passes) :
              i < j => passes[j].at - passes[i].at >= int(args.intensity)

\* C10 witness: the timer has triggered a pass with a positive interval
C10_Witness ==
    /\ args.run_mode = "time"
    /\ int(args.intensity) >= 1
    /\ Len(passes) >= 1
    /\ Len(list_of_files) >= 2

\* C11: the N50, read-count and scaffold-count histories have the same
\* length, 1 from the seed plus one entry for every pass whose scaffolder
\* (either backend) has returned a scaffold count.
C11_HistoriesGrow ==
    /\ Len(counter.n50) = Len(counter.reads)
    /\ Len(counter.reads) = Len(counter.scaffolds)
    /\ Len(counter.n50) = 1 + Len(returned)

\* C12: with both threads scheduled fairly, once `completed` is true the
\* main thread leaves the wait loop, stops and joins the observer, and the
\* process exits.
C12_ShutdownActedOn == completed ~> (main = "exited")

\* C12 witness: the process has exited after the flag was set while a
\* further pass was still in flight when the main thread left the loop
C12_Witness ==
    /\ main = "exited"
    /\ completed
    /\ watcher = "stopped"
    /\ Len(returned) >= 2

\* C13: a pass with the links backend that got a scaffold count from its
\* scaffolder leaves run_scaffold by returning, as a pass with the sspace
\* backend does, so that the count reaches the termination check.
C13_LinksReachesCheck ==
    args.scaffolder = "links" =>
        \A i \in 1..Len(returned) : returned[i].left = "returns"

\* C14: in time mode every firing of the trigger resets tic, whether the
\* pass that follows succeeds or fails: once the handler is over, tic is
\* not older than the latest trigger.
C14_TicResetOnTrigger ==
    (args.run_mode = "time" /\ passes # <<>>)
        => tic >= passes[Len(passes)].at

\* C15: handling an event whose file holds no 2D read leaves the file
\* list, the run history, tic and `completed` as they are, and neither
\* evaluates a trigger nor starts a pass.
C15_NoReadNoChange ==
    [][skipped' # skipped =>
          UNCHANGED <<list_of_files, counter, tic, completed, passes,
                      returned, failures, inFlight, watcher>>]_vars

\* C15 witness: with interval 1, where every usable event triggers a pass,
\* the event handled last held no 2D read and came after a usable one
C15_Witness ==
    /\ args.run_mode = "reads"
    /\ int(args.intensity) = 1
    /\ skipped >= 1
    /\ usable # <<>>
    /\ handled > usable[Len(usable)]
    /\ Len(passes) = Len(usable)

UsableUpTo(id) == SelectSeq(usable, LAMBDA x : x <= id)

\* C16: the list handed to run_scaffold holds one path for every usable
\* event handled so far, in arrival order, the triggering event last; the
\* first pass in count mode gets exactly `interval` files.
C16_WholeListPassed ==
    \A i \in 1..Len(passes) :
        /\ passes[i].files = UsableUpTo(passes[i].event)
        /\ passes[i].files[Len(passes[i].files)] = passes[i].event
        /\ (args.run_mode = "reads" /\ i = 1)
              => Len(passes[i].files) = int(args.intensity)

\* C16 witness: a later pass was handed three files, an event without a
\* 2D read having been handled as well
C16_Witness ==
    /\ skipped >= 1
    /\ \E i \in 2..Len(passes) : Len(passes[i].files) >= 3

\* C17: a failing plot call stops neither the start of the observer nor a
\* pass whose scaffolder has returned.
C17_PlottingOptional ==
    /\ main # "crashed"
    /\ \A i \in 1..Len(failures) : failures[i].what # "PlotFailure"

IsPrefix(s, t) == Len(s) <= Len(t) /\ SubSeq(t, 1, Len(s)) = s

\* C18: in both modes list_of_files only grows by appending, and it is at
\* least as long as the number of passes triggered so far.
C18_AppendOnly ==
    /\ [](Len(list_of_files) >= Len(passes))
    /\ [][IsPrefix(list_of_files, list_of_files')]_vars

\* C18 witness: in count mode with interval 1 each of three appended files
\* has triggered a pass, an event without a 2D read lying in between
C18_Witness ==
    /\ args.run_mode = "reads"
    /\ Len(passes) = 3
    /\ Len(list_of_files) = 3
    /\ skipped = 1

\* C19: in count mode a usable event whose post-append count is no
\* multiple of the interval appends its file and triggers no pass; the
\* counter and `completed` are what they were.
C19_NonMultipleFrame ==
    [][(/\ args.run_mode = "reads"
        /\ int(args.intensity) >= 1
        /\ Len(list_of_files') = Len(list_of_files) + 1
        /\ Len(list_of_files') % int(args.intensity) # 0)
          => UNCHANGED <<counter, completed, passes, inFlight, watcher>>]_vars

\* C19 witness: interval 2, the third file appended after a pass that
\* recorded its result and set the flag
C19_Witness ==
    /\ args.run_mode = "reads"
    /\ int(args.intensity) = 2
    /\ Len(list_of_files) = 3
    /\ Len(counter.n50) = 2
    /\ completed
    /\ watcher = "idle"
=============================================================================
